---- MODULE Spec2Model ----
(***************************************************************************)
(* EquiHire decision-support pipeline: the orchestrator                    *)
(* jobs/services.py:process_application with its three stages              *)
(* (calculate_match_score, get_fairness_metrics, get_explanation), the     *)
(* callers that start it, the reviewer's update view and the on-demand     *)
(* audit_fairness / explain actions of ApplicationViewSet.                 *)
(*                                                                         *)
(* One job, one resume per application.  A Python value that may be None   *)
(* is a set: None is {} and a present value x is {x}.  A score is the      *)
(* float similarity * 100; the embeddings of the model are chosen so that  *)
(* it is an integer.  A JSON dict is a record whose absent keys hold the   *)
(* string "absent".                                                        *)
(***************************************************************************)
EXTENDS Integers, Sequences, FiniteSets, TLC

\* ------------------------------------------------------------------ bounds
NumApps == 2
NumRuns == 2
MaxStarts == 2
MaxStageSteps == 6
MaxStoreFailures == 1
MaxReviews == 1
MaxOnDemand == 1
MaxApplicants == 3
MaxWords == 2
MaxPool == 2
MaxCalls == 2
MaxCoord == 2
MaxResumes == 3
NumCreators == 2
MaxMitigations == 1

Apps == 1..NumApps
Runs == 1..NumRuns
Creators == 1..NumCreators

\* ------------------------------------------------------------------- state
\* db: the applications table; created: the rows that exist; jobEmb, resEmb: the
\* embedding column of the job and of each resume; run: the calls of
\* process_application; lastWrite: per row and result field, the value of the last
\* write made to it; starts .. onDemand count what the bounds limit.
\* audit: one request to the audit backend, with the applications of the job that
\* the backend reads and with what the client makes of the answer; explainer: one
\* request to the explanation backend, with the texts it reads; calls: the calls of
\* get_fairness_metrics and get_explanation made with a backend that may fail.
\* matcher: one request to the matcher's candidate search, with the resumes in the
\* order the store returns them; creation: the create requests in flight, each
\* between its 'already applied' check and its insert, and the rows they inserted;
\* mitigation: the requests made to the reweighting operation and its last answer;
\* review: a REST update of an application between its load and its save
VARIABLES db, created, jobEmb, resEmb, run, lastWrite,
          starts, stageSteps, storeFailures, reviews, onDemand,
          audit, explainer, calls,
          matcher, creation, mitigation, review

pipeline == << db, created, jobEmb, resEmb, run, lastWrite,
               starts, stageSteps, storeFailures, reviews, onDemand >>

services == << audit, explainer, calls >>

requests == << matcher, creation, mitigation, review >>

vars == << db, created, jobEmb, resEmb, run, lastWrite,
           starts, stageSteps, storeFailures, reviews, onDemand,
           audit, explainer, calls,
           matcher, creation, mitigation, review >>

\* ---------------------------------------------------------- Python values
None == {}
Some(x) == {x}
Val(o) == CHOOSE x \in o : TRUE

Range(seq) == {seq[i] : i \in 1..Len(seq)}

\* float(application.score) if application.score else 0.0
ScoreOrZero(score) == IF score = None \/ score = Some(0) THEN 0 ELSE Val(score)

\* ------------------------------------------------------- similarity matcher
RECURSIVE Dot(_, _)
Dot(a, b) == IF Len(a) = 0 THEN 0 ELSE Head(a) * Head(b) + Dot(Tail(a), Tail(b))

ISqrt(n) == CHOOSE k \in 0..n : k * k <= n /\ (k + 1) * (k + 1) > n

Norm(a) == ISqrt(Dot(a, a))

\* cosine similarity * 100 (sklearn and the manual branch agree: 0 when a norm is 0);
\* the product of the two norms is the root of the product of the squared norms
Similarity100(a, b) ==
    IF Norm(a) * Norm(b) > 0
    THEN (Dot(a, b) * 100) \div ISqrt(Dot(a, a) * Dot(b, b))
    ELSE 0

\* a dot product divided by the squared norm of the job's embedding only
calculate_match_score_unscaled(jobEmbedding, resumeEmbedding) ==
    IF jobEmbedding = None \/ resumeEmbedding = None THEN None
    ELSE IF Len(Val(jobEmbedding)) = 0 \/ Len(Val(resumeEmbedding)) = 0 THEN None
    ELSE IF Len(Val(jobEmbedding)) # Len(Val(resumeEmbedding)) THEN None
    ELSE IF Dot(Val(jobEmbedding), Val(jobEmbedding)) = 0 THEN Some(0)
    ELSE Some((Dot(Val(jobEmbedding), Val(resumeEmbedding)) * 100)
                 \div Dot(Val(jobEmbedding), Val(jobEmbedding)))

\* a missing or empty embedding scored as 0 instead of not scored
calculate_match_score_zero(jobEmbedding, resumeEmbedding) ==
    IF jobEmbedding = None \/ resumeEmbedding = None THEN Some(0)
    ELSE IF Len(Val(jobEmbedding)) = 0 \/ Len(Val(resumeEmbedding)) = 0 THEN Some(0)
    ELSE IF Len(Val(jobEmbedding)) # Len(Val(resumeEmbedding)) THEN None
    ELSE Some(Similarity100(Val(jobEmbedding), Val(resumeEmbedding)))

\* a score that also depends on how many stages the process has run so far
calculate_match_score_drift(jobEmbedding, resumeEmbedding) ==
    IF jobEmbedding = None \/ resumeEmbedding = None THEN None
    ELSE IF Len(Val(jobEmbedding)) = 0 \/ Len(Val(resumeEmbedding)) = 0 THEN None
    ELSE IF Len(Val(jobEmbedding)) # Len(Val(resumeEmbedding)) THEN None
    ELSE Some(Similarity100(Val(jobEmbedding), Val(resumeEmbedding)) - stageSteps)

calculate_match_score(jobEmbedding, resumeEmbedding) ==
    IF jobEmbedding = None \/ resumeEmbedding = None THEN None
    ELSE IF Len(Val(jobEmbedding)) = 0 \/ Len(Val(resumeEmbedding)) = 0 THEN None
    ELSE IF Len(Val(jobEmbedding)) # Len(Val(resumeEmbedding)) THEN None
    ELSE Some(Similarity100(Val(jobEmbedding), Val(resumeEmbedding)))

\* ------------------------------------------------------------ stored values
\* Application.fairness_metrics: JSONField(default=dict)
DefaultFairness ==
    [shape |-> "empty", is_fallback |-> "absent", message |-> "absent", metrics |-> "absent"]

\* Application.explanation: JSONField(default=dict)
DefaultExplanation ==
    [shape |-> "empty", is_fallback |-> "absent", explanation |-> << >>, prediction |-> None]

\* a fresh Application row (score null, status 'pending')
DefaultRow ==
    [score |-> None, fairness_metrics |-> DefaultFairness, explanation |-> DefaultExplanation,
     status |-> "pending", notes |-> None, reviewed_by |-> None]

ResultFields == {"score", "fairness_metrics", "explanation"}
ReviewFields == {"status", "notes", "reviewed_by"}
AllFields == ResultFields \cup ReviewFields

\* application.save() with no update_fields: every column is written
save_all_fields(row, instance, update_fields) == instance

\* application.save(update_fields=[...]): only the named columns are written
save(row, instance, update_fields) ==
    [f \in AllFields |-> IF f \in update_fields THEN instance[f] ELSE row[f]]

\* ---------------------------------------------------------- fairness stage
\* getattr(settings, 'FAIRNESS_SERVICE_ENABLED', True): settings.py does not set it
FAIRNESS_SERVICE_ENABLED == TRUE

MsgUnavailable == "Using fallback fairness analysis - service unavailable"
MsgNotEnough == "Not enough applications for fairness analysis (minimum 2 required)"
MsgTimeout == "Fairness analysis timed out - using fallback metrics"
MsgServiceError == "Fairness service error: e - using fallback metrics"
MsgUnexpected == "Unexpected error: e - using fallback metrics"
MsgNoMetrics == "No fairness metrics available"
MsgNoMetricsWith == "No fairness metrics available - m"
MsgInsufficient == "Insufficient data for fairness audit"

\* the local dict FALLBACK_METRICS, built anew by every call, with its message set
FALLBACK_METRICS(message) ==
    [shape |-> "report", is_fallback |-> "true", message |-> message,
     metrics |-> "static_fallback"]

\* what requests.post(FAIRNESS_SERVICE_URL/api/audit) can come back with
FairnessFailures == {"timeout", "request_exception", "http_500"}
FairnessMalformed == {"not_a_dict", "no_metrics", "empty_metrics"}

\* a 200 body that is not JSON: response.json() raises JSONDecodeError, which is a
\* RequestException in some versions of requests and only a ValueError in others
InvalidJson == {"invalid_json", "invalid_json_value_error"}

\* fairness_service/app.py audit_fairness: the answer of the audit backend to a request
\* carrying score, when scored of the job's applications have a score in the store
audit_backend(score, scored) ==
    IF score = None THEN "http_400"
    ELSE IF scored < 2 THEN "insufficient"
    ELSE "computed"

FairnessAnswers(score, scored) ==
    FairnessFailures \cup FairnessMalformed \cup {audit_backend(score, scored)}

\* the answers drawn in a run: one of each kind the stage tells apart
StageFairnessAnswers(score, scored) ==
    {"timeout", "no_metrics", audit_backend(score, scored)}

\* the JSON body that get_fairness_metrics posts
AuditRequest(application_id, application, total) ==
    [application_id |-> application_id, job_id |-> 1,
     score |-> ScoreOrZero(application.score), total_applications |-> total]

\* a guard that also asks for the application's own score
fairness_guard_scored(application, total) ==
    IF ~FAIRNESS_SERVICE_ENABLED THEN "disabled"
    ELSE IF total < 2 \/ application.score = None THEN "not_enough"
    ELSE "call"

\* the checks of get_fairness_metrics that come before requests.post
fairness_guard(application, total) ==
    IF ~FAIRNESS_SERVICE_ENABLED THEN "disabled"
    ELSE IF total < 2 THEN "not_enough"
    ELSE "call"

\* does get_fairness_metrics reach requests.post
AuditCalled(application, total) == fairness_guard(application, total) = "call"

get_fairness_metrics(application, total, answer) ==
    IF fairness_guard(application, total) = "disabled" THEN FALLBACK_METRICS(MsgUnavailable)
    ELSE IF fairness_guard(application, total) = "not_enough" THEN FALLBACK_METRICS(MsgNotEnough)
    ELSE CASE answer = "timeout" -> FALLBACK_METRICS(MsgTimeout)
           [] answer \in {"request_exception", "invalid_json"} ->
                FALLBACK_METRICS(MsgServiceError)
           [] answer = "invalid_json_value_error" -> FALLBACK_METRICS(MsgUnexpected)
           [] answer \in {"http_400", "http_500"} -> FALLBACK_METRICS(MsgUnavailable)
           [] answer = "not_a_dict" -> FALLBACK_METRICS(MsgUnavailable)
           [] answer = "no_metrics" ->
                [shape |-> "report", is_fallback |-> "absent", message |-> MsgNoMetrics,
                 metrics |-> "empty"]
           [] answer = "empty_metrics" ->
                [shape |-> "report", is_fallback |-> "absent", message |-> MsgNoMetricsWith,
                 metrics |-> "empty"]
           [] answer = "insufficient" ->
                [shape |-> "report", is_fallback |-> "absent", message |-> "absent",
                 metrics |-> "insufficient"]
           [] OTHER ->
                [shape |-> "report", is_fallback |-> "absent", message |-> "absent",
                 metrics |-> "computed"]

\* ------------------------------------------------------- explanation stage
\* getattr(settings, 'EXPLAINABILITY_SERVICE_ENABLED', True): settings.py does not set it
EXPLAINABILITY_SERVICE_ENABLED == TRUE

BaseRationale ==
    << "This is a fallback explanation because the explainability service is currently unavailable.",
       "The match score is based on keyword matching and semantic similarity",
       "Key factors considered include: skills match, experience relevance, and education alignment",
       "For a more detailed analysis, please try again later" >>

LineNoJobText == "No job description available for analysis."
LineNoResumeText == "No resume content available for analysis."
LineTimeout == "Explanation service timed out - showing fallback explanation."
LineServiceError == "Explanation service error - e"
LineUnexpected == "Unexpected error: e"

\* a fallback that starts from the rationale already stored on the application
FALLBACK_EXPLANATION_kept(application) ==
    [shape |-> "result", is_fallback |-> "true",
     explanation |-> IF application.explanation.is_fallback = "true"
                     THEN application.explanation.explanation ELSE BaseRationale,
     prediction |-> Some(ScoreOrZero(application.score))]

\* the local dict FALLBACK_EXPLANATION, built anew by every call
FALLBACK_EXPLANATION(application) ==
    [shape |-> "result", is_fallback |-> "true", explanation |-> BaseRationale,
     prediction |-> Some(ScoreOrZero(application.score))]

\* the keys of the dict that get_explanation returns: those of FALLBACK_EXPLANATION,
\* or the three that a 200 body is made to have
explanation_keys(result) ==
    IF result.is_fallback = "true"
    THEN {"explanation", "prediction", "is_fallback", "confidence", "suggestions"}
    ELSE {"explanation", "prediction", "is_fallback"}

\* FALLBACK_EXPLANATION['explanation'].insert(0, line); return FALLBACK_EXPLANATION
FallbackWith(application, line) ==
    [FALLBACK_EXPLANATION(application) EXCEPT !.explanation = <<line>> \o @]

\* what requests.post(EXPLAINABILITY_SERVICE_URL/explain) can come back with
ExplanationFailures == {"timeout", "request_exception", "http_404"}
ExplanationMalformed == {"not_a_dict", "no_explanation", "object"}
ExplanationBodies == {"list", "str"}
ExplanationAnswers == ExplanationFailures \cup ExplanationMalformed \cup ExplanationBodies

\* the answers drawn in a run: one of each kind the stage tells apart
StageExplanationAnswers == {"timeout", "http_404", "list"}

\* the prediction carried by a 200 body that has one
BackendPrediction == 42

\* does get_explanation reach requests.post
ExplainCalled(job_text, resume_text) ==
    EXPLAINABILITY_SERVICE_ENABLED /\ job_text # "" /\ resume_text # ""

get_explanation(application, job_text, resume_text, answer) ==
    IF ~EXPLAINABILITY_SERVICE_ENABLED THEN FALLBACK_EXPLANATION(application)
    ELSE IF job_text = "" THEN FallbackWith(application, LineNoJobText)
    ELSE IF resume_text = "" THEN FallbackWith(application, LineNoResumeText)
    ELSE CASE answer = "timeout" -> FallbackWith(application, LineTimeout)
           [] answer \in {"request_exception", "invalid_json"} ->
                FallbackWith(application, LineServiceError)
           [] answer = "invalid_json_value_error" ->
                FallbackWith(application, LineUnexpected)
           [] answer \in {"http_404", "http_500"} -> FALLBACK_EXPLANATION(application)
           [] answer = "not_a_dict" -> FALLBACK_EXPLANATION(application)
           [] answer = "list" ->
                [shape |-> "result", is_fallback |-> "false",
                 explanation |-> << "service rationale" >>,
                 prediction |-> Some(BackendPrediction)]
           [] answer = "str" ->
                [shape |-> "result", is_fallback |-> "false",
                 explanation |-> << "service text" >>,
                 prediction |-> Some(ScoreOrZero(application.score))]
           [] OTHER ->
                [shape |-> "result", is_fallback |-> "false",
                 explanation |-> FALLBACK_EXPLANATION(application).explanation,
                 prediction |-> Some(ScoreOrZero(application.score))]

\* ---------------------------------------------------- on-demand REST actions
\* ApplicationViewSet.audit_fairness: the value it stores, None when it stores nothing
audit_fairness_stored(answer) ==
    CASE answer \in {"no_metrics", "empty_metrics"} -> Some(DefaultFairness)
      [] answer = "insufficient" ->
            Some([shape |-> "metrics", is_fallback |-> "absent", message |-> MsgInsufficient,
                  metrics |-> "insufficient"])
      [] answer = "computed" ->
            Some([shape |-> "metrics", is_fallback |-> "absent", message |-> "absent",
                  metrics |-> "computed"])
      [] OTHER -> None

\* the answers drawn by the on-demand audit: the audit backend's own, or a failure
AuditViewAnswers(score, scored) == {"timeout", "http_500", audit_backend(score, scored)}

\* explainability_service/app.py explain_application, reached at /api/explain:
\* job_id and resume_id are always sent, so it answers 200 with an explanation object
explain_backend == "object"

\* the routes of explainability_service/app.py
explain_routes == {"/health", "/api/explain", "/api/batch_explain"}

\* the path after EXPLAINABILITY_SERVICE_URL that get_explanation posts to, and the
\* one that ApplicationViewSet.explain posts to
stage_explain_path == "/explain"
view_explain_path == "/api/explain"

\* what the explanation backend, up and healthy, answers to a POST carrying job_id
\* and resume_id: Flask answers 404 for a path that has no route
explain_service_answer(path) ==
    IF path \in explain_routes THEN explain_backend ELSE "http_404"

\* the answers drawn by the on-demand explain: the backend's own, or a failure
ExplainViewAnswers == {"timeout", "http_500", explain_backend}

\* ApplicationViewSet.explain: the value it stores, None when it stores nothing
explain_stored(answer) ==
    CASE answer = "no_explanation" -> Some(DefaultExplanation)
      [] answer = "object" ->
            Some([shape |-> "service_object", is_fallback |-> "absent",
                  explanation |-> << "Match score of s based on n common terms" >>,
                  prediction |-> None])
      [] OTHER -> None

\* ------------------------------------------------------------ audit backend
\* a float that is the quotient of two small integers, kept in lowest terms
RECURSIVE GCD(_, _)
GCD(a, b) == IF b = 0 THEN a ELSE GCD(b, a % b)

Frac(n, d) == [num |-> n \div GCD(n, d), den |-> d \div GCD(n, d)]

FracLeq(x, y) == x.num * y.den <= y.num * x.den

FracLess(x, y) == x.num * y.den < y.num * x.den

FracDiv(x, y) == Frac(x.num * y.den, x.den * y.num)

FracSub(x, y) == Frac(x.num * y.den - y.num * x.den, x.den * y.den)

FracMul(x, y) == Frac(x.num * y.num, x.den * y.den)

\* the experience_years of a resume grouped into the protected attribute
experience_level(exp_years) ==
    LET years == IF exp_years = None THEN 0 ELSE Val(exp_years)
    IN IF years < 2 THEN "junior" ELSE IF years < 5 THEN "mid" ELSE "senior"

\* s >= 0.5, s being the score column as it is stored
selected(s) == 2 * s >= 1

\* selection rate of every group that has a score
selection_rates(scores, protected_attributes) ==
    [g \in Range(protected_attributes) |->
        Frac(Cardinality({i \in 1..Len(scores) :
                            protected_attributes[i] = g /\ selected(scores[i])}),
             Cardinality({i \in 1..Len(scores) : protected_attributes[i] = g}))]

min_rate(rates) ==
    CHOOSE x \in {rates[g] : g \in DOMAIN rates} :
        \A y \in {rates[g] : g \in DOMAIN rates} : FracLeq(x, y)

max_rate(rates) ==
    CHOOSE x \in {rates[g] : g \in DOMAIN rates} :
        \A y \in {rates[g] : g \in DOMAIN rates} : FracLeq(y, x)

\* a ratio that goes by the labels: the rate of the least experienced group over
\* the rate of the most experienced one
calculate_disparate_impact_by_label(scores, protected_attributes) ==
    IF Len(scores) = 0 \/ Len(protected_attributes) = 0 THEN None
    ELSE LET rates == selection_rates(scores, protected_attributes)
             rank == [g \in {"junior", "mid", "senior"} |->
                         IF g = "junior" THEN 1 ELSE IF g = "mid" THEN 2 ELSE 3]
             first == CHOOSE g \in DOMAIN rates : \A h \in DOMAIN rates : rank[g] <= rank[h]
             last == CHOOSE g \in DOMAIN rates : \A h \in DOMAIN rates : rank[h] <= rank[g]
         IN IF Cardinality(DOMAIN rates) < 2 THEN None
            ELSE IF rates[last].num = 0 THEN None
            ELSE Some(FracDiv(rates[first], rates[last]))

calculate_disparate_impact(scores, protected_attributes) ==
    IF Len(scores) = 0 \/ Len(protected_attributes) = 0 THEN None
    ELSE LET rates == selection_rates(scores, protected_attributes)
         IN IF Cardinality(DOMAIN rates) < 2 THEN None
            ELSE IF max_rate(rates).num = 0 THEN None
            ELSE Some(FracDiv(min_rate(rates), max_rate(rates)))

calculate_demographic_parity(scores, protected_attributes) ==
    IF Len(scores) = 0 \/ Len(protected_attributes) = 0 THEN None
    ELSE LET rates == selection_rates(scores, protected_attributes)
         IN IF Cardinality(DOMAIN rates) < 2 THEN None
            ELSE Some(FracSub(max_rate(rates), min_rate(rates)))

\* a verdict that wants both metrics there and in range
is_fair_strict(disparate_impact, demographic_parity_diff) ==
    /\ disparate_impact # None
    /\ demographic_parity_diff # None
    /\ FracLeq(Frac(4, 5), Val(disparate_impact))
    /\ FracLeq(Val(disparate_impact), Frac(5, 4))
    /\ FracLeq(Val(demographic_parity_diff), Frac(1, 10))

\* the verdict of audit_fairness: it starts as True and only a metric that is there
\* and out of range makes it False
is_fair(disparate_impact, demographic_parity_diff) ==
    /\ ~(/\ disparate_impact # None
          /\ \/ FracLess(Val(disparate_impact), Frac(4, 5))
             \/ FracLess(Frac(5, 4), Val(disparate_impact)))
    /\ ~(/\ demographic_parity_diff # None
          /\ FracLess(Frac(1, 10), Val(demographic_parity_diff)))

\* the rows the audit query returns: WHERE a.score IS NOT NULL
ScoredRows(applications) == SelectSeq(applications, LAMBDA row : row.score # None)

NoAuditMetrics ==
    [message |-> "absent", total_applications |-> 0, disparate_impact_ratio |-> None,
     demographic_parity_difference |-> None, is_fair |-> "absent",
     selection_rates |-> << >>]

\* audit_fairness: status, body and the selection rates it went by (which the body
\* does not carry), for a request carrying
\* request_score; db_ok is false when the connection or the query fails
audit_fairness_response(request_score, applications, db_ok) ==
    LET rows == ScoredRows(applications)
        scores == [i \in 1..Len(rows) |-> Val(rows[i].score)]
        protected_attributes ==
            [i \in 1..Len(rows) |-> experience_level(rows[i].experience_years)]
        disparate_impact == calculate_disparate_impact(scores, protected_attributes)
        demographic_parity_diff == calculate_demographic_parity(scores, protected_attributes)
    IN IF request_score = None
       THEN [status |-> 400, answer |-> "http_400", metrics |-> NoAuditMetrics]
       ELSE IF ~db_ok
       THEN [status |-> 500, answer |-> "http_500", metrics |-> NoAuditMetrics]
       ELSE IF Len(rows) < 2
       THEN [status |-> 200, answer |-> audit_backend(request_score, Len(rows)),
             metrics |-> [NoAuditMetrics EXCEPT !.message = MsgInsufficient,
                                                !.total_applications = Len(rows)]]
       ELSE [status |-> 200, answer |-> audit_backend(request_score, Len(rows)),
             metrics |->
                 [message |-> "absent", total_applications |-> Len(rows),
                  disparate_impact_ratio |-> disparate_impact,
                  demographic_parity_difference |-> demographic_parity_diff,
                  is_fair |-> IF is_fair(disparate_impact, demographic_parity_diff)
                              THEN "true" ELSE "false",
                  selection_rates |-> selection_rates(scores, protected_attributes)]]

\* the metrics that the dict FALLBACK_METRICS carries
StaticFallbackMetrics ==
    [statistical_parity_difference |-> Frac(0, 1), disparate_impact_ratio |-> Frac(1, 1),
     analysis_quality |-> "low"]

\* ------------------------------------------------------ explanation backend
\* the words a job text or a resume text is made of
Words == {"Python", "python", "docker", "JavaScript", "machine", "learning"}

\* str.lower() of a word
lower(word) ==
    CASE word = "Python" -> "python"
      [] word = "JavaScript" -> "javascript"
      [] OTHER -> word

important_keywords ==
    << "python", "java", "javascript", "react", "sql", "docker", "kubernetes", "aws",
       "machine learning", "experience", "education", "certification", "project", "skill" >>

\* the keywords that are substrings of a lower-case word
keywords_within(word) ==
    CASE word = "python" -> {"python"}
      [] word = "docker" -> {"docker"}
      [] word = "javascript" -> {"java", "javascript"}
      [] OTHER -> {}

\* keyword in text.lower(): a substring test on the whole text, whose words are
\* separated by one space
keyword_in(keyword, text) ==
    IF keyword = "machine learning"
    THEN \E i \in 1..(Len(text) - 1) :
            lower(text[i]) = "machine" /\ lower(text[i + 1]) = "learning"
    ELSE \E i \in 1..Len(text) : keyword \in keywords_within(lower(text[i]))

\* set(text.lower().split())
word_set(text) == {lower(text[i]) : i \in 1..Len(text)}

\* weights that also mark down a keyword found in the resume text only
feature_importance_either(job_text, resume_text) ==
    [keyword \in Range(important_keywords) |->
        IF keyword_in(keyword, job_text) /\ keyword_in(keyword, resume_text) THEN Some(10)
        ELSE IF keyword_in(keyword, job_text) \/ keyword_in(keyword, resume_text)
        THEN Some(-5)
        ELSE None]

\* feature_importance in hundredths, None for a keyword without an entry
feature_importance(job_text, resume_text) ==
    [keyword \in Range(important_keywords) |->
        IF keyword_in(keyword, job_text) /\ keyword_in(keyword, resume_text) THEN Some(10)
        ELSE IF keyword_in(keyword, job_text) THEN Some(-5)
        ELSE None]

NoFeatures == [keyword \in Range(important_keywords) |-> None]

\* explain_score_simple; model is false when the sentence model failed to load
explain_score_simple(job_text, resume_text, model) ==
    IF ~model
    THEN [explanation |-> "Model not available", common_words_count |-> 0,
          feature_importance |-> NoFeatures]
    ELSE [explanation |-> "Match score of s based on n common terms",
          common_words_count |-> Cardinality(word_set(job_text) \cap word_set(resume_text)),
          feature_importance |-> feature_importance(job_text, resume_text)]

\* the explanation that explain_application answers with; embedded is false when the
\* job or the resume has no stored embedding
explain_application_body(job_text, resume_text, model, embedded) ==
    IF embedded \/ model
    THEN explain_score_simple(job_text, resume_text, model)
    ELSE [explanation |-> "Unable to generate explanation - embeddings not available",
          common_words_count |-> 0, feature_importance |-> NoFeatures]

\* ------------------------------------------------------------ orchestrator
Stages == << "score", "fairness", "explanation" >>

\* the explanation stage placed before the fairness stage
next_stage_swapped(stage) ==
    CASE stage = "score" -> "explanation"
      [] stage = "explanation" -> "fairness"
      [] OTHER -> "done"

\* a fairness stage that waits for its backend without a timeout
next_stage_hung(stage) ==
    CASE stage = "score" -> "fairness"
      [] stage = "fairness" -> "waiting"
      [] OTHER -> "done"

\* the statement that follows a stage in process_application
next_stage(stage) ==
    CASE stage = "score" -> "fairness"
      [] stage = "fairness" -> "explanation"
      [] OTHER -> "done"

\* a fairness stage without its own try/except: its error ends the run
on_store_error_outer(stage) ==
    CASE stage = "score" -> "done"
      [] stage = "fairness" -> "done"
      [] OTHER -> "done"

\* where the run continues when application.save raises in a stage: the score
\* stage is covered by the outer except only, which returns the application
on_store_error(stage) ==
    CASE stage = "score" -> "done"
      [] stage = "fairness" -> "explanation"
      [] OTHER -> "done"

\* how process_application ends: every except clause ends in 'return application'
outcome_of_run(failed_writes) == "returned"

\* title, description and requirements of the job; raw_text of a resume
jobText == "python docker"
resText == [a \in Apps |-> "python"]

IdleRun ==
    [pc |-> "idle", app |-> 1, application |-> DefaultRow, attempted |-> << >>,
     outcome |-> "none", failedWrites |-> {}, loaded |-> "absent",
     embedRequests |-> << "none", "none" >>,
     embeddings |-> << None, None >>, scoreAfter |-> None, scoreWritten |-> None,
     pool |-> 0, auditSent |-> None, fairnessAnswer |-> "none",
     fairnessWritten |-> None, explanationAnswer |-> "none", explanationWritten |-> None]

NoWrites == [f \in ResultFields |-> None]

\* vectors the embedding provider answers with
JobVector == << 1, 0 >>
ResumeVector == << 3, 4 >>

\* the score that an earlier run stored from these vectors
PriorScore == Similarity100(JobVector, ResumeVector)

\* no request made to a backend yet
NoResponse == [status |-> 0, answer |-> "none", metrics |-> NoAuditMetrics]

IdleAudit ==
    [pc |-> "idle", applications |-> << >>, application |-> 0,
     response |-> NoResponse, report |-> DefaultFairness]

IdleExplainer ==
    [pc |-> "idle", job_text |-> << >>, resume_text |-> << >>, model |-> TRUE,
     response |-> [status |-> 0, explanation |-> "none", common_words_count |-> 0,
                   feature_importance |-> NoFeatures]]

\* no candidate search asked of the matcher yet
IdleMatcher ==
    [pc |-> "idle", model |-> TRUE, job_embedding |-> None, resumes |-> << >>,
     top_k |-> 0,
     response |-> [status |-> 0, matches |-> << >>, total_candidates |-> 0]]

\* no create request in flight and no row inserted by one
IdleCreation ==
    [rows |-> << >>,
     request |-> [c \in Creators |-> [pc |-> "idle", via |-> "none", resume |-> 0]]]

\* the reweighting operation not asked yet
IdleMitigation ==
    [count |-> 0,
     response |-> [status |-> 0, adjusted_scores |-> << >>, weights |-> << >>]]

\* no REST update in flight
IdleReview == [pc |-> "idle", app |-> 1, instance |-> DefaultRow]

RequestsIdle ==
    /\ matcher = IdleMatcher
    /\ creation = IdleCreation
    /\ mitigation = IdleMitigation
    /\ review = IdleReview

Init ==
    /\ audit = IdleAudit
    /\ explainer = IdleExplainer
    /\ calls = << >>
    /\ RequestsIdle
    /\ created = {1}
    /\ db \in {[a \in Apps |-> DefaultRow],
                [a \in Apps |-> IF a = 1 THEN [DefaultRow EXCEPT !.score = Some(PriorScore)]
                                ELSE DefaultRow]}
    /\ jobEmb \in {None, Some(<< >>), Some(JobVector)}
    /\ resEmb \in {[a \in Apps |-> Some(ResumeVector)],
                   [a \in Apps |-> IF a = 1 THEN None ELSE Some(ResumeVector)]}
    /\ run = [r \in Runs |-> IdleRun]
    /\ lastWrite = [a \in Apps |-> NoWrites]
    /\ starts = 0
    /\ stageSteps = 0
    /\ storeFailures = 0
    /\ reviews = 0
    /\ onDemand = 0

ScoredCount == Cardinality({a \in created : db[a].score # None})

StoreOutcomes == IF storeFailures < MaxStoreFailures THEN {TRUE, FALSE} ELSE {TRUE}

\* the run record when a stage is over and the run goes on at pc; at "done" the
\* function has returned and its application instance is dropped
Continue(rec, stage, pc) ==
    [rec EXCEPT !.pc = pc,
                !.attempted = Append(@, stage),
                !.application = IF pc = "done" THEN DefaultRow ELSE @,
                !.outcome = IF pc = "done" THEN outcome_of_run(rec.failedWrites) ELSE "none"]

\* the store row and the record of the last write after save(update_fields=[field])
Written(a, instance, field) ==
    /\ db' = [db EXCEPT ![a] = save(@, instance, {field})]
    /\ lastWrite' = [lastWrite EXCEPT ![a][field] = Some(instance[field])]

\* a caller loads an application that exists and calls process_application:
\* application_detail_view and application_list_view when its score is null,
\* the reprocess_applications command for any application (--all)
Start(r, a) ==
    /\ run[r].pc \in {"idle", "done"}
    /\ a \in created
    /\ starts < MaxStarts
    /\ starts' = starts + 1
    /\ run' = [run EXCEPT ![r] = [IdleRun EXCEPT !.pc = "score", !.app = a,
                                                 !.application = db[a],
                                                 !.loaded = db[a].explanation.is_fallback]]
    /\ UNCHANGED << db, created, jobEmb, resEmb, lastWrite,
                    stageSteps, storeFailures, reviews, onDemand >>
    /\ UNCHANGED << services, requests >>

\* application_create_view: the 'already applied' check, the embeddings asked of
\* the provider when missing, Application.objects.create, then process_application
application_create_view(r, a) ==
    /\ run[r].pc \in {"idle", "done"}
    /\ a \notin created
    /\ starts < MaxStarts
    /\ starts' = starts + 1
    /\ \E jobAnswer \in {None, Some(JobVector)}, resumeAnswer \in {None, Some(ResumeVector)} :
         /\ jobEmb' = IF jobEmb = None THEN jobAnswer ELSE jobEmb
         /\ resEmb' = [resEmb EXCEPT ![a] =
                          IF @ = None /\ resText[a] # "" THEN resumeAnswer ELSE @]
         /\ jobEmb = None \/ jobAnswer = None
         /\ (resEmb[a] = None /\ resText[a] # "") \/ resumeAnswer = None
         /\ run' = [run EXCEPT ![r] =
                      [IdleRun EXCEPT
                          !.pc = "score", !.app = a, !.application = DefaultRow,
                          !.embedRequests =
                              << IF jobEmb # None THEN "none"
                                 ELSE IF jobAnswer = None THEN "failed" ELSE "answered",
                                 IF ~(resEmb[a] = None /\ resText[a] # "") THEN "none"
                                 ELSE IF resumeAnswer = None THEN "failed"
                                 ELSE "answered" >>]]
    /\ created' = created \cup {a}
    /\ db' = [db EXCEPT ![a] = DefaultRow]
    /\ lastWrite' = [lastWrite EXCEPT ![a] = NoWrites]
    /\ UNCHANGED << stageSteps, storeFailures, reviews, onDemand >>
    /\ UNCHANGED << services, requests >>

\* stage 1 of process_application: calculate_match_score, then the score is saved
ScoreStage(r) ==
    /\ run[r].pc = "score"
    /\ LET a == run[r].app
           score == calculate_match_score(jobEmb, resEmb[a])
           instance == IF score # None THEN [run[r].application EXCEPT !.score = score]
                       ELSE run[r].application
           rec == [run[r] EXCEPT !.application = instance,
                                 !.embeddings = << jobEmb, resEmb[a] >>,
                                 !.scoreAfter = instance.score]
       IN \E ok \in StoreOutcomes :
            \/ /\ score = None
               /\ ok
               /\ run' = [run EXCEPT ![r] = Continue(rec, "score", next_stage("score"))]
               /\ UNCHANGED << db, lastWrite, storeFailures >>
            \/ /\ score # None
               /\ ok
               /\ Written(a, instance, "score")
               /\ run' = [run EXCEPT ![r] =
                            Continue([rec EXCEPT !.scoreWritten = score],
                                     "score", next_stage("score"))]
               /\ UNCHANGED storeFailures
            \/ /\ score # None
               /\ ~ok
               /\ storeFailures' = storeFailures + 1
               /\ run' = [run EXCEPT ![r] =
                            Continue([rec EXCEPT !.failedWrites = @ \cup {"score"}],
                                     "score", on_store_error("score"))]
               /\ UNCHANGED << db, lastWrite >>
    /\ stageSteps < MaxStageSteps
    /\ stageSteps' = stageSteps + 1
    /\ UNCHANGED << created, jobEmb, resEmb, starts, reviews, onDemand >>
    /\ UNCHANGED << services, requests >>

\* stage 2 of process_application: get_fairness_metrics, then the report is saved
FairnessStage(r) ==
    /\ run[r].pc = "fairness"
    /\ LET a == run[r].app
           total == Cardinality(created)
       IN \E answer \in StageFairnessAnswers(Some(ScoreOrZero(run[r].application.score)),
                                                 ScoredCount),
             ok \in StoreOutcomes :
            LET called == AuditCalled(run[r].application, total)
                report == get_fairness_metrics(run[r].application, total, answer)
                instance == [run[r].application EXCEPT !.fairness_metrics = report]
                rec == [run[r] EXCEPT
                          !.application = instance,
                          !.pool = total,
                          !.fairnessAnswer = IF called THEN answer ELSE "not_called",
                          !.auditSent = IF called
                                        THEN Some(AuditRequest(a, run[r].application, total))
                                        ELSE None]
            IN /\ called \/ answer = "timeout"
               /\ \/ /\ ok
                     /\ Written(a, instance, "fairness_metrics")
                     /\ run' = [run EXCEPT ![r] =
                                  Continue([rec EXCEPT !.fairnessWritten = Some(report)],
                                           "fairness", next_stage("fairness"))]
                     /\ UNCHANGED storeFailures
                  \/ /\ ~ok
                     /\ storeFailures' = storeFailures + 1
                     /\ run' = [run EXCEPT ![r] =
                                  Continue([rec EXCEPT !.failedWrites = @ \cup {"fairness"}],
                                           "fairness", on_store_error("fairness"))]
                     /\ UNCHANGED << db, lastWrite >>
    /\ stageSteps < MaxStageSteps
    /\ stageSteps' = stageSteps + 1
    /\ UNCHANGED << created, jobEmb, resEmb, starts, reviews, onDemand >>
    /\ UNCHANGED << services, requests >>

\* stage 3 of process_application: get_explanation, then the explanation is saved
ExplanationStage(r) ==
    /\ run[r].pc = "explanation"
    /\ LET a == run[r].app
       IN \E answer \in StageExplanationAnswers, ok \in StoreOutcomes :
            LET called == ExplainCalled(jobText, resText[a])
                result == get_explanation(run[r].application, jobText, resText[a], answer)
                instance == [run[r].application EXCEPT !.explanation = result]
                rec == [run[r] EXCEPT
                          !.application = instance,
                          !.explanationAnswer = IF called THEN answer ELSE "not_called"]
            IN /\ called \/ answer = "timeout"
               /\ \/ /\ ok
                     /\ Written(a, instance, "explanation")
                     /\ run' = [run EXCEPT ![r] =
                                  Continue([rec EXCEPT !.explanationWritten = Some(result)],
                                           "explanation", next_stage("explanation"))]
                     /\ UNCHANGED storeFailures
                  \/ /\ ~ok
                     /\ storeFailures' = storeFailures + 1
                     /\ run' = [run EXCEPT ![r] =
                                  Continue([rec EXCEPT !.failedWrites = @ \cup {"explanation"}],
                                           "explanation", on_store_error("explanation"))]
                     /\ UNCHANGED << db, lastWrite >>
    /\ stageSteps < MaxStageSteps
    /\ stageSteps' = stageSteps + 1
    /\ UNCHANGED << created, jobEmb, resEmb, starts, reviews, onDemand >>
    /\ UNCHANGED << services, requests >>

\* application_update_view: a recruiter posts a valid status and optional notes
application_update_view(a, status, notes) ==
    /\ a \in created
    /\ reviews < MaxReviews
    /\ reviews' = reviews + 1
    /\ LET instance == [db[a] EXCEPT !.status = status,
                                     !.notes = IF notes # "" THEN Some(notes) ELSE @]
       IN db' = [db EXCEPT ![a] = save(@, instance, {"status", "notes"})]
    /\ UNCHANGED << created, jobEmb, resEmb, run, lastWrite,
                    starts, stageSteps, storeFailures, onDemand >>
    /\ UNCHANGED << services, requests >>

\* ApplicationViewSet.audit_fairness: the on-demand audit of one application
audit_fairness(a) ==
    /\ a \in created
    /\ onDemand < MaxOnDemand
    /\ onDemand' = onDemand + 1
    /\ \E answer \in AuditViewAnswers(db[a].score, ScoredCount) :
         LET stored == audit_fairness_stored(answer)
             instance == [db[a] EXCEPT !.fairness_metrics = Val(stored)]
         IN IF stored = None
            THEN UNCHANGED << db, lastWrite >>
            ELSE Written(a, instance, "fairness_metrics")
    /\ UNCHANGED << created, jobEmb, resEmb, run,
                    starts, stageSteps, storeFailures, reviews >>
    /\ UNCHANGED << services, requests >>

\* ApplicationViewSet.explain: the on-demand explanation of one application
explain(a) ==
    /\ a \in created
    /\ onDemand < MaxOnDemand
    /\ onDemand' = onDemand + 1
    /\ \E answer \in ExplainViewAnswers :
         LET stored == explain_stored(answer)
             instance == [db[a] EXCEPT !.explanation = Val(stored)]
         IN IF stored = None
            THEN UNCHANGED << db, lastWrite >>
            ELSE Written(a, instance, "explanation")
    /\ UNCHANGED << created, jobEmb, resEmb, run,
                    starts, stageSteps, storeFailures, reviews >>
    /\ UNCHANGED << services, requests >>

\* the orchestrator and its callers
Next ==
    \/ \E r \in Runs, a \in Apps : Start(r, a)
    \/ \E r \in Runs, a \in Apps : application_create_view(r, a)
    \/ \E r \in Runs : ScoreStage(r)
    \/ \E r \in Runs : FairnessStage(r)
    \/ \E r \in Runs : ExplanationStage(r)

Spec == Init /\ [][Next]_vars

\* the stage that run r is at
Stage(r) == ScoreStage(r) \/ FairnessStage(r) \/ ExplanationStage(r)

\* the orchestrator when a run that can take its next statement takes it: the
\* calls of a stage are synchronous and each request carries timeout=5, so the
\* transport answers or raises Timeout and the stage returns
\* every application of the job exists, none processed yet
InitLive ==
    /\ audit = IdleAudit
    /\ explainer = IdleExplainer
    /\ calls = << >>
    /\ RequestsIdle
    /\ created = Apps
    /\ db = [a \in Apps |-> DefaultRow]
    /\ jobEmb \in {None, Some(JobVector)}
    /\ resEmb = [a \in Apps |-> Some(ResumeVector)]
    /\ run = [r \in Runs |-> IdleRun]
    /\ lastWrite = [a \in Apps |-> NoWrites]
    /\ starts = 0
    /\ stageSteps = 0
    /\ storeFailures = 0
    /\ reviews = 0
    /\ onDemand = 0

\* the application whose runs are followed to their end
FirstApp == CHOOSE a \in Apps : \A b \in Apps : a <= b

\* runs of process_application on one application, and their stages
NextLive ==
    \/ \E r \in Runs : Start(r, FirstApp)
    \/ \E r \in Runs : Stage(r)

SpecLive == InitLive /\ [][NextLive]_vars /\ \A r \in Runs : WF_vars(Stage(r))

\* applications whose job and resumes have their embeddings
InitEmbedded ==
    /\ Init
    /\ jobEmb = Some(JobVector)
    /\ \A a \in Apps : resEmb[a] = Some(ResumeVector)
    /\ \A a \in Apps : db[a].score = None

\* the orchestrator next to a recruiter who reviews applications
NextReview ==
    \/ Next
    \/ \E a \in Apps, status \in {"reviewing", "rejected"}, notes \in {"", "good fit"} :
         application_update_view(a, status, notes)

SpecReview == InitEmbedded /\ [][NextReview]_vars

\* the orchestrator next to the on-demand audit and explain actions
NextOnDemand ==
    \/ Next
    \/ \E a \in Apps : audit_fairness(a)
    \/ \E a \in Apps : explain(a)

SpecOnDemand == InitEmbedded /\ [][NextOnDemand]_vars

\* ------------------------------------------------- the backends on their own
\* one stored application and nothing running
PipelineIdle ==
    /\ created = {1}
    /\ db = [a \in Apps |-> DefaultRow]
    /\ jobEmb = Some(JobVector)
    /\ resEmb = [a \in Apps |-> Some(ResumeVector)]
    /\ run = [r \in Runs |-> IdleRun]
    /\ lastWrite = [a \in Apps |-> NoWrites]
    /\ starts = 0
    /\ stageSteps = 0
    /\ storeFailures = 0
    /\ reviews = 0
    /\ onDemand = 0

\* an application of the job as the audit query sees it: its score column and the
\* experience_years of its resume
ApplicantRows ==
    [score : {None, Some(0), Some(10), Some(90)},
     experience_years : {None, Some(3), Some(7)}]

ApplicationTables == UNION {[1..n -> ApplicantRows] : n \in 1..MaxApplicants}

InitAudit ==
    /\ PipelineIdle
    /\ audit \in {[IdleAudit EXCEPT !.applications = table] : table \in ApplicationTables}
    /\ explainer = IdleExplainer
    /\ calls = << >>
    /\ RequestsIdle

\* get_fairness_metrics for application i of the job, answered by audit_fairness
FairnessAudit(i) ==
    /\ audit.pc = "idle"
    /\ i \in 1..Len(audit.applications)
    /\ \E db_ok \in BOOLEAN :
         LET application == [DefaultRow EXCEPT !.score = audit.applications[i].score]
             total == Len(audit.applications)
             called == AuditCalled(application, total)
             response ==
                 IF called
                 THEN audit_fairness_response(Some(AuditRequest(i, application, total).score),
                                              audit.applications, db_ok)
                 ELSE NoResponse
             report == get_fairness_metrics(application, total, response.answer)
         IN /\ called \/ db_ok
            /\ audit' = [audit EXCEPT !.pc = "returned", !.application = i,
                                       !.response = response, !.report = report]
    /\ UNCHANGED << pipeline, explainer, calls, requests >>

NextAudit == \E i \in 1..MaxApplicants : FairnessAudit(i)

SpecAudit == InitAudit /\ [][NextAudit]_vars

Texts == UNION {[1..n -> Words] : n \in 0..MaxWords}

InitExplainer ==
    /\ PipelineIdle
    /\ audit = IdleAudit
    /\ explainer \in {[IdleExplainer EXCEPT !.job_text = job_text,
                                             !.resume_text = resume_text,
                                             !.model = model] :
                          job_text \in Texts, resume_text \in Texts, model \in BOOLEAN}
    /\ calls = << >>
    /\ RequestsIdle

\* explain_application for a job and a resume that exist
explain_application ==
    /\ explainer.pc = "idle"
    /\ \E embedded \in BOOLEAN :
         LET body == explain_application_body(explainer.job_text, explainer.resume_text,
                                              explainer.model, embedded)
         IN explainer' =
                [explainer EXCEPT !.pc = "answered",
                                  !.response = [status |-> 200,
                                                explanation |-> body.explanation,
                                                common_words_count |-> body.common_words_count,
                                                feature_importance |-> body.feature_importance]]
    /\ UNCHANGED << pipeline, audit, calls, requests >>

NextExplainer == explain_application

SpecExplainer == InitExplainer /\ [][NextExplainer]_vars

\* ----------------------------------------- the clients with a failing backend
InitCalls ==
    /\ PipelineIdle
    /\ audit = IdleAudit
    /\ explainer = IdleExplainer
    /\ calls = << >>
    /\ RequestsIdle

\* get_fairness_metrics for an application with this score, of a job that has total
\* applications, scored of them with a score, with any answer of the transport
FairnessCall ==
    /\ Len(calls) < MaxCalls
    /\ \E score \in {None, Some(PriorScore)}, total \in 1..MaxPool, scored \in 0..MaxPool :
         LET application == [DefaultRow EXCEPT !.score = score]
             called == AuditCalled(application, total)
         IN /\ scored <= total
            /\ score # None => scored >= 1
            /\ score = None => scored < total
            /\ \E answer \in IF called
                              THEN FairnessAnswers(Some(ScoreOrZero(score)), scored)
                                       \cup InvalidJson
                              ELSE {"not_called"} :
                 calls' = Append(calls,
                     [op |-> "get_fairness_metrics", score |-> score, total |-> total,
                      scored |-> scored, job_text |-> "", resume_text |-> "",
                      answer |-> answer,
                      report |-> get_fairness_metrics(application, total, answer),
                      result |-> DefaultExplanation])
    /\ UNCHANGED << pipeline, audit, explainer, requests >>

\* get_explanation for an application with this score and these texts, with any
\* answer of the transport
ExplanationCall ==
    /\ Len(calls) < MaxCalls
    /\ \E score \in {None, Some(PriorScore)}, job_text \in {"", jobText},
          resume_text \in {"", "python"} :
         LET application == [DefaultRow EXCEPT !.score = score]
             called == ExplainCalled(job_text, resume_text)
         IN \E answer \in IF called
                           THEN ExplanationAnswers \cup InvalidJson \cup {"http_500"}
                           ELSE {"not_called"} :
               calls' = Append(calls,
                   [op |-> "get_explanation", score |-> score, total |-> 0, scored |-> 0,
                    job_text |-> job_text, resume_text |-> resume_text,
                    answer |-> answer,
                    report |-> DefaultFairness,
                    result |-> get_explanation(application, job_text, resume_text, answer)])
    /\ UNCHANGED << pipeline, audit, explainer, requests >>

NextCalls == FairnessCall \/ ExplanationCall

SpecCalls == InitCalls /\ [][NextCalls]_vars

\* ------------------------------------------------- the matcher on any vectors
\* embeddings with small integer coordinates
Vectors == [1..Len(JobVector) -> (0 - MaxCoord)..MaxCoord]

InitScale ==
    /\ audit = IdleAudit
    /\ explainer = IdleExplainer
    /\ calls = << >>
    /\ RequestsIdle
    /\ created = {1}
    /\ db = [a \in Apps |-> DefaultRow]
    /\ jobEmb \in {Some(v) : v \in Vectors}
    /\ resEmb \in {[a \in Apps |-> Some(w)] : w \in Vectors}
    /\ run = [r \in Runs |-> IdleRun]
    /\ lastWrite = [a \in Apps |-> NoWrites]
    /\ starts = 0
    /\ stageSteps = 0
    /\ storeFailures = 0
    /\ reviews = 0
    /\ onDemand = 0

\* runs as far as their score stage
NextScale ==
    \/ \E r \in Runs, a \in Apps : Start(r, a)
    \/ \E r \in Runs : ScoreStage(r)

SpecScale == InitScale /\ [][NextScale]_vars

\* ------------------------------------------------- the candidate search
\* embeddings stored with resumes
ResumeEmbeddings == {ResumeVector, << 4, 3 >>}

\* a resume as the query of match_resumes returns it; a candidate has one resume
ResumeRows ==
    [id : 1..MaxResumes, candidate_id : 1..MaxResumes, embedding : ResumeEmbeddings]

\* what the query can return: the resumes that qualify, each once, in any order
\* (the query has no ORDER BY)
StoreResults ==
    {resumes \in UNION {[1..n -> ResumeRows] : n \in 0..MaxResumes} :
        /\ \A i \in DOMAIN resumes : resumes[i].candidate_id = resumes[i].id
        /\ \A i, j \in DOMAIN resumes : i # j => resumes[i].id # resumes[j].id}

\* the entry appended to matches for each resume, its score in hundredths
RECURSIVE similarities(_, _)
similarities(job_embedding, resumes) ==
    IF resumes = << >> THEN << >>
    ELSE << [resume_id |-> Head(resumes).id,
             candidate_id |-> Head(resumes).candidate_id,
             score |-> Similarity100(job_embedding, Head(resumes).embedding)] >>
         \o similarities(job_embedding, Tail(resumes))

\* matches.sort(key=score, reverse=True): the sort is stable, so entries with the
\* same score keep the order they had
RECURSIVE sort_by_score(_)
sort_by_score(matches) ==
    IF matches = << >> THEN << >>
    ELSE LET front == sort_by_score(SubSeq(matches, 1, Len(matches) - 1))
             last == matches[Len(matches)]
             k == Cardinality({i \in DOMAIN front : front[i].score >= last.score})
         IN SubSeq(front, 1, k) \o << last >> \o SubSeq(front, k + 1, Len(front))

\* matches[:top_k] for top_k >= 0
top_matches(matches, top_k) ==
    SubSeq(matches, 1, IF top_k < Len(matches) THEN top_k ELSE Len(matches))

match_resumes_response(model, job_embedding, resumes, top_k, db_ok) ==
    IF ~model THEN [status |-> 500, matches |-> << >>, total_candidates |-> 0]
    ELSE IF job_embedding = None
    THEN [status |-> 400, matches |-> << >>, total_candidates |-> 0]
    ELSE IF ~db_ok THEN [status |-> 500, matches |-> << >>, total_candidates |-> 0]
    ELSE LET matches == sort_by_score(similarities(Val(job_embedding), resumes))
         IN [status |-> 200, matches |-> top_matches(matches, top_k),
             total_candidates |-> Len(matches)]

InitMatch ==
    /\ PipelineIdle
    /\ audit = IdleAudit
    /\ explainer = IdleExplainer
    /\ calls = << >>
    /\ creation = IdleCreation
    /\ mitigation = IdleMitigation
    /\ review = IdleReview
    /\ matcher \in {[IdleMatcher EXCEPT !.model = model, !.job_embedding = job_embedding,
                                        !.resumes = resumes, !.top_k = top_k] :
                        model \in BOOLEAN, job_embedding \in {None, Some(JobVector)},
                        resumes \in StoreResults, top_k \in 1..MaxResumes}

\* POST /api/match
match_resumes ==
    /\ matcher.pc = "idle"
    /\ \E db_ok \in BOOLEAN :
         matcher' = [matcher EXCEPT
                        !.pc = "answered",
                        !.response = match_resumes_response(matcher.model,
                                         matcher.job_embedding, matcher.resumes,
                                         matcher.top_k, db_ok)]
    /\ UNCHANGED << pipeline, services, creation, mitigation, review >>

NextMatch == match_resumes

SpecMatch == InitMatch /\ [][NextMatch]_vars

\* ------------------------------------------------- the reweighting operation
\* the body of mitigate_bias for the applications of the job
mitigate_bias_response(job_id, applications, db_ok) ==
    LET rows == ScoredRows(applications)
        scores == [i \in 1..Len(rows) |-> Val(rows[i].score)]
        protected ==
            [i \in 1..Len(rows) |-> experience_level(rows[i].experience_years)]
        rates == selection_rates(scores, protected)
        overall_rate == Frac(Cardinality({i \in 1..Len(rows) : selected(scores[i])}),
                             Len(rows))
        weights == [g \in DOMAIN rates |->
                       IF rates[g].num > 0 THEN FracDiv(overall_rate, rates[g])
                       ELSE Frac(1, 1)]
        weighted(i) == FracMul(Frac(scores[i], 1), weights[protected[i]])
    IN IF job_id = None
       THEN [status |-> 400, adjusted_scores |-> << >>, weights |-> << >>]
       ELSE IF ~db_ok
       THEN [status |-> 500, adjusted_scores |-> << >>, weights |-> << >>]
       ELSE IF Len(rows) < 2
       THEN [status |-> 400, adjusted_scores |-> << >>, weights |-> << >>]
       ELSE [status |-> 200,
             adjusted_scores |->
                 [i \in 1..Len(rows) |->
                     [application_id |-> rows[i].id,
                      original_score |-> Frac(scores[i], 1),
                      adjusted_score |-> IF FracLeq(Frac(1, 1), weighted(i))
                                         THEN Frac(1, 1) ELSE weighted(i),
                      weight |-> weights[protected[i]]]],
             weights |-> weights]

\* a reweighting that stores each adjusted score as the score of its application
store_after_mitigate_applied(table, response) ==
    [a \in DOMAIN table |->
        IF \E i \in DOMAIN response.adjusted_scores :
              response.adjusted_scores[i].application_id = a
        THEN LET entry == CHOOSE e \in Range(response.adjusted_scores) :
                              e.application_id = a
             IN [table[a] EXCEPT
                    !.score = Some(entry.adjusted_score.num \div entry.adjusted_score.den)]
        ELSE table[a]]

\* the applications table after mitigate_bias: the only statement it sends to the
\* store is a SELECT
store_after_mitigate(table, response) == table

\* experience_years of the resumes: one mid-level candidate, the others senior
experience_years == [a \in Apps |-> IF a = FirstApp THEN Some(3) ELSE Some(7)]

\* the applications of the job with the experience_years of their resumes
JobApplications ==
    SelectSeq([a \in Apps |-> [id |-> a, score |-> db[a].score,
                               experience_years |-> experience_years[a]]],
              LAMBDA row : row.id \in created)

InitMitigate ==
    /\ audit = IdleAudit
    /\ explainer = IdleExplainer
    /\ calls = << >>
    /\ matcher = IdleMatcher
    /\ creation = IdleCreation
    /\ review = IdleReview
    /\ mitigation = IdleMitigation
    /\ created = Apps
    /\ db \in {[a \in Apps |-> DefaultRow],
                [a \in Apps |-> [DefaultRow EXCEPT !.score = Some(PriorScore)]]}
    /\ jobEmb = Some(JobVector)
    /\ resEmb = [a \in Apps |-> Some(ResumeVector)]
    /\ run = [r \in Runs |-> IdleRun]
    /\ lastWrite = [a \in Apps |-> NoWrites]
    /\ starts = 0
    /\ stageSteps = 0
    /\ storeFailures = 0
    /\ reviews = 0
    /\ onDemand = 0

\* POST /api/mitigate
mitigate_bias ==
    /\ mitigation.count < MaxMitigations
    /\ \E job_id \in {None, Some(1)}, db_ok \in BOOLEAN :
         LET response == mitigate_bias_response(job_id, JobApplications, db_ok)
         IN /\ mitigation' = [mitigation EXCEPT !.count = @ + 1, !.response = response]
            /\ db' = store_after_mitigate(db, response)
    /\ UNCHANGED << created, jobEmb, resEmb, run, lastWrite,
                    starts, stageSteps, storeFailures, reviews, onDemand >>
    /\ UNCHANGED << services, matcher, creation, review >>

\* the reweighting next to runs of the orchestrator
NextMitigate ==
    \/ \E r \in Runs, a \in Apps : Start(r, a)
    \/ \E r \in Runs : Stage(r)
    \/ mitigate_bias

SpecMitigate == InitMitigate /\ [][NextMitigate]_vars

\* ------------------------------------------------- the REST update of a reviewer
\* ApplicationViewSet.update / partial_update, first half: get_object loads the
\* application, every column of it
rest_update_load(a) ==
    /\ review.pc = "idle"
    /\ a \in created
    /\ reviews < MaxReviews
    /\ reviews' = reviews + 1
    /\ review' = [pc |-> "loaded", app |-> a, instance |-> db[a]]
    /\ UNCHANGED << db, created, jobEmb, resEmb, run, lastWrite,
                    starts, stageSteps, storeFailures, onDemand >>
    /\ UNCHANGED << services, matcher, creation, mitigation >>

\* second half: ApplicationUpdateSerializer.update sets reviewed_by and the
\* validated fields on the instance, and ModelSerializer.update ends in
\* instance.save() with no update_fields
rest_update_save(status, notes) ==
    /\ review.pc = "loaded"
    /\ LET a == review.app
           instance == [review.instance EXCEPT !.status = status,
                                               !.notes = notes,
                                               !.reviewed_by = Some("recruiter")]
       IN /\ db' = [db EXCEPT ![a] = save(@, instance, AllFields)]
          /\ lastWrite' = [lastWrite EXCEPT ![a] = [f \in ResultFields |-> Some(instance[f])]]
          /\ review' = [review EXCEPT !.pc = "saved", !.instance = instance]
    /\ UNCHANGED << created, jobEmb, resEmb, run,
                    starts, stageSteps, storeFailures, reviews, onDemand >>
    /\ UNCHANGED << services, matcher, creation, mitigation >>

\* runs of the orchestrator next to a reviewer who uses the HTML view or the REST
\* update
NextRest ==
    \/ \E r \in Runs, a \in Apps : Start(r, a)
    \/ \E r \in Runs : Stage(r)
    \/ \E a \in Apps, status \in {"reviewing", "rejected"}, notes \in {"", "good fit"} :
         application_update_view(a, status, notes)
    \/ \E a \in Apps : rest_update_load(a)
    \/ \E status \in {"reviewing", "rejected"}, notes \in {None, Some("good fit")} :
         rest_update_save(status, notes)

SpecRest == InitEmbedded /\ [][NextRest]_vars

\* ------------------------------------------------- concurrent create requests
\* the pair of an application of the job for a resume
pair_of(resume) == [job |-> 1, resume |-> resume]

\* an INSERT that ignores the unique key
insert_unchecked(rows, row) == Append(rows, row)

\* INSERT into applications: unique_together = ['job', 'resume'] makes the store
\* raise IntegrityError for a pair it already holds, and the table is unchanged
insert(rows, row) == IF row \in Range(rows) THEN rows ELSE Append(rows, row)

InitCreate ==
    /\ PipelineIdle
    /\ audit = IdleAudit
    /\ explainer = IdleExplainer
    /\ calls = << >>
    /\ matcher = IdleMatcher
    /\ mitigation = IdleMitigation
    /\ review = IdleReview
    /\ creation = IdleCreation

\* the 'already applied' check of application_create_view (via = "html") and of
\* ApplicationCreateSerializer.validate (via = "rest")
already_applied_check(c, via, resume) ==
    /\ creation.request[c].pc = "idle"
    /\ creation' = [creation EXCEPT
                        !.request[c] =
                            [pc |-> IF pair_of(resume) \in Range(creation.rows)
                                    THEN "refused" ELSE "checked",
                             via |-> via, resume |-> resume]]
    /\ UNCHANGED << pipeline, services, matcher, mitigation, review >>

\* Application.objects.create of the view, serializer.save() of the viewset: the
\* IntegrityError is not handled and the request fails
create_application(c) ==
    /\ creation.request[c].pc = "checked"
    /\ LET row == pair_of(creation.request[c].resume)
           rows == insert(creation.rows, row)
       IN creation' = [creation EXCEPT
                          !.rows = rows,
                          !.request[c].pc = IF rows = creation.rows
                                            THEN "integrity_error" ELSE "created"]
    /\ UNCHANGED << pipeline, services, matcher, mitigation, review >>

NextCreate ==
    \/ \E c \in Creators, via \in {"html", "rest"}, resume \in Apps :
         already_applied_check(c, via, resume)
    \/ \E c \in Creators : create_application(c)

SpecCreate == InitCreate /\ [][NextCreate]_vars

\* ------------------------------------------------------------------ claims
IsPrefix(s, t) == Len(s) <= Len(t) /\ \A i \in 1..Len(s) : s[i] = t[i]

\* the column that a stage saves
StageField(stage) ==
    CASE stage = "score" -> "score"
      [] stage = "fairness" -> "fairness_metrics"
      [] OTHER -> "explanation"

\* this step is a stage of run r
RunStep(r) == run[r].pc \in Range(Stages) /\ run'[r] # run[r]

MissingEmbedding(jobEmbedding, resumeEmbedding) ==
    \/ jobEmbedding = None
    \/ resumeEmbedding = None
    \/ Len(Val(jobEmbedding)) = 0
    \/ Len(Val(resumeEmbedding)) = 0

\* C1: in a run the stages are attempted in the order score, fairness, explanation,
\* each at most once: what a run has attempted is always a prefix of that order, and
\* the stage it is about to attempt is the next one of the order.
C1_StagesInOrderOnce ==
    \A r \in Runs :
        /\ IsPrefix(run[r].attempted, Stages)
        /\ run[r].pc \in Range(Stages) =>
               Stages[Len(run[r].attempted) + 1] = run[r].pc

C1_Witness ==
    \E r \in Runs : run[r].pc = "done" /\ run[r].attempted = Stages

\* C2 as stated: every run that has finished has attempted the explanation stage.
C2_ExplanationInEveryRun ==
    \A r \in Runs : run[r].pc = "done" => "explanation" \in Range(run[r].attempted)

\* C2 amended: every finished run whose score write did not fail has attempted the
\* explanation stage, whatever happened in the score stage (no score for want of an
\* embedding) and in the fairness stage (timeout, malformed answer, failed write).
C2_ExplanationUnlessScoreWriteFails ==
    \A r \in Runs :
        (run[r].pc = "done" /\ "score" \notin run[r].failedWrites)
            => "explanation" \in Range(run[r].attempted)

C2_Witness ==
    \E r \in Runs :
        /\ run[r].pc = "done"
        /\ MissingEmbedding(run[r].embeddings[1], run[r].embeddings[2])
        /\ run[r].scoreAfter = None
        /\ run[r].fairnessAnswer \in {"timeout", "no_metrics"}
        /\ "explanation" \in Range(run[r].attempted)

\* C3: a run ends by raising to its caller exactly when one of its store writes failed.
C3_FailureSurfacedIffWriteFails ==
    \A r \in Runs :
        run[r].pc = "done" => (run[r].outcome = "raised" <=> run[r].failedWrites # {})

\* C4 as stated: a run whose application has no score after the score stage sends no
\* audit request and does not write the fairness field.
C4_FairnessSkippedWithoutScore ==
    \A r \in Runs :
        (run[r].pc \in {"explanation", "done"} /\ "score" \in Range(run[r].attempted)
         /\ run[r].scoreAfter = None)
            => (run[r].auditSent = None /\ run[r].fairnessWritten = None)

\* C4 amended: a run whose application has no score after the score stage still
\* attempts the fairness stage; it sends an audit request exactly when the job has at
\* least 2 applications, the request carries score 0, and the report is written to the
\* fairness field unless that write fails.
C4_FairnessAttemptedWithoutScore ==
    \A r \in Runs :
        (run[r].pc \in {"explanation", "done"} /\ "score" \in Range(run[r].attempted)
         /\ run[r].scoreAfter = None)
            => /\ "fairness" \in Range(run[r].attempted)
               /\ run[r].auditSent # None <=> run[r].pool >= 2
               /\ run[r].auditSent # None => Val(run[r].auditSent).score = 0
               /\ "fairness" \notin run[r].failedWrites =>
                      /\ run[r].fairnessWritten # None
                      /\ Val(run[r].fairnessWritten).shape = "report"

C4_Witness ==
    \E r \in Runs :
        /\ run[r].pc \in {"explanation", "done"}
        /\ run[r].scoreAfter = None
        /\ run[r].auditSent # None
        /\ Val(run[r].auditSent).score = 0
        /\ run[r].fairnessWritten # None
        /\ db[run[r].app].fairness_metrics = Val(run[r].fairnessWritten)

\* C5: whatever the interleaving of the runs on an application, each of score,
\* fairness_metrics and explanation holds the value of the last write made to it; a
\* write to one of them therefore never changes another.
C5_LastWriteWins ==
    \A a \in created : \A f \in ResultFields :
        lastWrite[a][f] # None => db[a][f] = Val(lastWrite[a][f])

\* two runs on one application, the second started before the first stored its
\* explanation, have both finished and stored different explanations
C5_Witness ==
    \E r1, r2 \in Runs :
        /\ r1 # r2
        /\ run[r1].app = run[r2].app
        /\ run[r1].pc = "done" /\ run[r2].pc = "done"
        /\ run[r1].loaded = "absent" /\ run[r2].loaded = "absent"
        /\ run[r1].explanationWritten # None /\ run[r2].explanationWritten # None
        /\ run[r1].explanationWritten # run[r2].explanationWritten
        /\ run[r1].scoreWritten # None /\ run[r2].scoreWritten # None

\* C6: a stage of a run changes no stored column but its own one of its own
\* application: status, notes and reviewed_by, and every other row, stay as they
\* are, also when a recruiter changed them after the run loaded the application.
C6_WritesAreFieldScoped ==
    [][\A r \in Runs :
          RunStep(r) =>
              \A b \in Apps : \A g \in AllFields :
                  \/ (b = run[r].app /\ g = StageField(run[r].pc))
                  \/ db'[b][g] = db[b][g]]_vars

\* a run that loaded the application as pending is still going, has written, and
\* the recruiter has meanwhile set status and notes
C6_Witness ==
    \E r \in Runs :
        /\ run[r].pc = "explanation"
        /\ run[r].fairnessWritten # None
        /\ run[r].application.status = "pending"
        /\ db[run[r].app].status = "reviewing"
        /\ db[run[r].app].notes # None

FreshRationales ==
    {BaseRationale} \cup
    {<< line >> \o BaseRationale :
        line \in {LineNoJobText, LineNoResumeText, LineTimeout, LineServiceError}}

FallbackMessages == {MsgUnavailable, MsgNotEnough, MsgTimeout, MsgServiceError}

\* C7: after any number of runs the stored fairness report and explanation are the
\* ones last written, and a stored fallback is a fresh one: its rationale is the base
\* list with at most one line in front, its report the static payload with one of the
\* fixed messages; nothing of an earlier run is kept in them.
C7_ResultsOverwritten ==
    \A a \in created :
        /\ lastWrite[a].explanation # None =>
              /\ db[a].explanation = Val(lastWrite[a].explanation)
              /\ Len(db[a].explanation.explanation) <= Len(BaseRationale) + 1
              /\ db[a].explanation.is_fallback = "true" =>
                     db[a].explanation.explanation \in FreshRationales
        /\ lastWrite[a].fairness_metrics # None =>
              /\ db[a].fairness_metrics = Val(lastWrite[a].fairness_metrics)
              /\ db[a].fairness_metrics.is_fallback = "true" =>
                     /\ db[a].fairness_metrics.message \in FallbackMessages
                     /\ db[a].fairness_metrics.metrics = "static_fallback"

\* a run that loaded an application whose stored explanation was a fallback has
\* stored a fallback with a line in front of the base list
C7_Witness ==
    \E r \in Runs :
        /\ run[r].pc = "done"
        /\ run[r].loaded = "true"
        /\ run[r].explanationWritten # None
        /\ Val(run[r].explanationWritten).is_fallback = "true"
        /\ Len(Val(run[r].explanationWritten).explanation) = Len(BaseRationale) + 1
        /\ db[run[r].app].explanation = Val(run[r].explanationWritten)

C9_NoScoreWithoutEmbedding ==
    [][\A r \in Runs :
          (/\ run[r].pc = "score"
           /\ run'[r] # run[r]
           /\ MissingEmbedding(jobEmb, resEmb[run[r].app]))
              => /\ run'[r].scoreWritten = None
                 /\ run'[r].scoreAfter = run[r].application.score
                 /\ "score" \notin run'[r].failedWrites
                 /\ db'[run[r].app].score = db[run[r].app].score
                 /\ run'[r].pc = "fairness"]_vars

\* a run found an embedding missing and the score stored before is still there
C9_Witness ==
    \E r \in Runs :
        /\ "score" \in Range(run[r].attempted)
        /\ MissingEmbedding(run[r].embeddings[1], run[r].embeddings[2])
        /\ run[r].scoreWritten = None
        /\ db[run[r].app].score = Some(PriorScore)

WellFormedFairness(v) ==
    /\ v.shape = "report"
    /\ v.is_fallback \in {"true", "false"}
    /\ v.metrics # "computed" => (v.is_fallback = "true" /\ v.metrics = "static_fallback")

WellFormedExplanation(v) ==
    /\ v.shape = "result"
    /\ v.is_fallback \in {"true", "false"}
    /\ Len(v.explanation) > 0
    /\ v.prediction # None

\* the message a fairness report carries, at the top or inside its metrics
ReportedMessage(report, response) ==
    IF report.message # "absent" THEN report.message ELSE response.metrics.message

\* the disparate impact ratio a fairness report carries, None when it has none
ReportedRatio(report, response) ==
    CASE report.metrics = "static_fallback" ->
            Some(StaticFallbackMetrics.disparate_impact_ratio)
      [] report.metrics = "computed" -> response.metrics.disparate_impact_ratio
      [] OTHER -> None

\* the fairness verdict a fairness report carries, "absent" when it has none
ReportedVerdict(report, response) ==
    IF report.metrics = "computed" THEN response.metrics.is_fair ELSE "absent"

\* C10: once an operation has written an application's fairness or explanation
\* field, the field holds a complete report with an is_fallback flag, and a report
\* without real data is the flagged fallback with its payload.
C10_WrittenReportsWellFormed ==
    \A a \in created :
        /\ lastWrite[a].fairness_metrics # None => WellFormedFairness(db[a].fairness_metrics)
        /\ lastWrite[a].explanation # None => WellFormedExplanation(db[a].explanation)

\* C11: every call of get_fairness_metrics returns a report, and when the audit
\* backend timed out, answered with a status other than 2xx or sent a malformed
\* payload (not JSON, not an object, or an object without metrics), the report is
\* the fallback report with is_fallback = true.
C11_FallbackOnEveryFailure ==
    \A k \in 1..Len(calls) :
        calls[k].op = "get_fairness_metrics" =>
            /\ calls[k].report.shape = "report"
            /\ calls[k].answer \in {"timeout", "http_400", "http_500"}
                                       \cup FairnessMalformed \cup InvalidJson
                  => /\ calls[k].report.is_fallback = "true"
                     /\ calls[k].report.metrics = "static_fallback"

\* C12: when the job has fewer than 2 applications, or fewer than 2 of them have a
\* score, the result of the audit is a fallback report: is_fallback = true, a message
\* that reports the insufficient data, and no disparate impact ratio.
C12_SmallPoolIsFallback ==
    (/\ audit.pc = "returned"
     /\ audit.response.status \in {0, 200}
     /\ \/ Len(audit.applications) < 2
        \/ Len(ScoredRows(audit.applications)) < 2)
        => /\ audit.report.is_fallback = "true"
           /\ ReportedMessage(audit.report, audit.response) \in {MsgNotEnough, MsgInsufficient}
           /\ ReportedRatio(audit.report, audit.response) = None

\* C13: when the audited applications fall into fewer than 2 groups, the result of
\* the audit is the fallback of an insufficient sample: is_fallback = true, no ratio
\* and no fairness verdict.
C13_OneGroupIsFallback ==
    (/\ audit.pc = "returned"
     /\ audit.response.answer = "computed"
     /\ Cardinality(DOMAIN audit.response.metrics.selection_rates) < 2)
        => /\ audit.report.is_fallback = "true"
           /\ ReportedRatio(audit.report, audit.response) = None
           /\ ReportedVerdict(audit.report, audit.response) = "absent"

\* the audit has answered with computed metrics
AuditComputed == audit.pc = "returned" /\ audit.response.answer = "computed"

AuditedScores ==
    [i \in 1..Len(ScoredRows(audit.applications)) |->
        Val(ScoredRows(audit.applications)[i].score)]

AuditedGroups ==
    [i \in 1..Len(ScoredRows(audit.applications)) |->
        experience_level(ScoredRows(audit.applications)[i].experience_years)]

\* the fraction of group g whose score divided by 100 is at least 0.5
RateAtHalf(g) ==
    Frac(Cardinality({i \in DOMAIN AuditedScores :
                        AuditedGroups[i] = g /\ AuditedScores[i] >= 50}),
         Cardinality({i \in DOMAIN AuditedScores : AuditedGroups[i] = g}))

\* C14: the selection rate of a group is the fraction of its applications whose
\* score / 100 is at least 0.5, the score being the stored 0-100 value; for groups
\* [junior, junior, senior] with scores [90, 90, 10] the audit gives junior rate 1,
\* senior rate 0, disparate impact ratio 0 and is_fair = false.
C14_SelectionRateAtHalf ==
    AuditComputed =>
        /\ \A g \in DOMAIN audit.response.metrics.selection_rates :
               audit.response.metrics.selection_rates[g] = RateAtHalf(g)
        /\ (AuditedGroups = << "junior", "junior", "senior" >>
             /\ AuditedScores = << 90, 90, 10 >>)
               => /\ audit.response.metrics.selection_rates["junior"] = Frac(1, 1)
                  /\ audit.response.metrics.selection_rates["senior"] = Frac(0, 1)
                  /\ audit.response.metrics.disparate_impact_ratio = Some(Frac(0, 1))
                  /\ audit.response.metrics.is_fair = "false"

GroupLabels == {"junior", "mid", "senior"}

\* C15: a disparate impact ratio that is defined is the least selection rate of a
\* group divided by the greatest, lies in [0, 1], and is the one computed when the
\* labels of the groups are permuted in any way.
C15_RatioIsMinOverMax ==
    (AuditComputed /\ audit.response.metrics.disparate_impact_ratio # None) =>
        LET rates == audit.response.metrics.selection_rates
            ratio == Val(audit.response.metrics.disparate_impact_ratio)
        IN /\ \E lo \in DOMAIN rates, hi \in DOMAIN rates :
                  /\ \A g \in DOMAIN rates :
                         FracLeq(rates[lo], rates[g]) /\ FracLeq(rates[g], rates[hi])
                  /\ ratio.num * rates[hi].num * rates[lo].den
                         = rates[lo].num * ratio.den * rates[hi].den
           /\ FracLeq(Frac(0, 1), ratio)
           /\ FracLeq(ratio, Frac(1, 1))
           /\ \A relabel \in Permutations(GroupLabels) :
                  calculate_disparate_impact(
                      AuditedScores,
                      [i \in DOMAIN AuditedGroups |-> relabel[AuditedGroups[i]]])
                      = Some(ratio)

\* an audit of three groups with different rates: the ratio is 1/2
C15_Witness ==
    /\ AuditComputed
    /\ audit.response.metrics.disparate_impact_ratio = Some(Frac(1, 2))
    /\ AuditedGroups = << "junior", "junior", "senior" >>
    /\ audit.response.metrics.selection_rates["junior"] = Frac(1, 2)
    /\ audit.response.metrics.selection_rates["senior"] = Frac(1, 1)

\* C16: when no application of any group reaches the threshold (the greatest
\* selection rate is 0), the audit answers without an error and the result is a
\* fallback report with no ratio and no fairness verdict.
C16_NoSelectionIsFallback ==
    (/\ audit.pc = "returned"
     /\ audit.response.status # 500
     /\ Cardinality(Range(AuditedGroups)) >= 2
     /\ \A i \in DOMAIN AuditedScores : ~selected(AuditedScores[i]))
        => /\ audit.response.status = 200
           /\ ReportedRatio(audit.report, audit.response) = None
           /\ audit.report.is_fallback = "true"
           /\ ReportedVerdict(audit.report, audit.response) = "absent"

\* C17: is_fair is true exactly when the ratio, if there is one, lies in [0.8, 1.25]
\* and the demographic parity difference, if there is one, is at most 0.1 in
\* absolute value; a metric that is missing counts as in range.
C17_VerdictFromPresentMetrics ==
    AuditComputed =>
        LET ratio == audit.response.metrics.disparate_impact_ratio
            difference == audit.response.metrics.demographic_parity_difference
        IN audit.response.metrics.is_fair = "true" <=>
              /\ \/ ratio = None
                 \/ /\ FracLeq(Frac(4, 5), Val(ratio))
                    /\ FracLeq(Val(ratio), Frac(5, 4))
              /\ \/ difference = None
                 \/ /\ FracLeq(Val(difference), Frac(1, 10))
                    /\ FracLeq(Frac(0, 1), Val(difference))

\* an audit with no ratio but with a difference, which is in range: fair by default
C17_Witness ==
    /\ AuditComputed
    /\ audit.response.metrics.disparate_impact_ratio = None
    /\ audit.response.metrics.demographic_parity_difference = Some(Frac(0, 1))
    /\ audit.response.metrics.is_fair = "true"

\* the kind of failure behind an answer of the audit backend
FailureCause(answer) ==
    CASE answer = "timeout" -> "timeout"
      [] answer \in {"http_400", "http_500"} -> "service_error"
      [] answer \in {"not_a_dict"} \cup InvalidJson -> "malformed"
      [] OTHER -> "none"

\* C18: the message of a fallback fairness report tells the cause: two calls that
\* failed for different causes among timeout, service error (status other than
\* 2xx) and malformed data (not JSON, or not an object) carry different messages.
C18_MessageTellsCause ==
    \A k1 \in 1..Len(calls), k2 \in 1..Len(calls) :
        (/\ calls[k1].op = "get_fairness_metrics"
         /\ calls[k2].op = "get_fairness_metrics"
         /\ FailureCause(calls[k1].answer) # "none"
         /\ FailureCause(calls[k2].answer) # "none"
         /\ FailureCause(calls[k1].answer) # FailureCause(calls[k2].answer))
            => calls[k1].report.message # calls[k2].report.message

IsFallbackRationale(rationale) ==
    \/ rationale = BaseRationale
    \/ Len(rationale) = Len(BaseRationale) + 1 /\ Tail(rationale) = BaseRationale

\* C20: every fallback explanation that get_explanation returns, whatever made it
\* fall back, has is_fallback = true and a rationale that is not empty.
C20_FallbackExplanationFlagged ==
    \A k \in 1..Len(calls) :
        (/\ calls[k].op = "get_explanation"
         /\ \/ calls[k].answer \in {"not_called", "http_500"} \cup ExplanationFailures
                                       \cup InvalidJson
            \/ IsFallbackRationale(calls[k].result.explanation))
            => /\ calls[k].result.is_fallback = "true"
               /\ calls[k].result.shape = "result"
               /\ Len(calls[k].result.explanation) > 0

\* C21: the prediction of the explanation that a run stores equals the score the
\* application has after the score stage of that run, whenever it has one; it comes
\* from nowhere else.
C21_PredictionIsCallerScore ==
    \A r \in Runs :
        (run[r].explanationWritten # None /\ run[r].scoreAfter # None)
            => Val(run[r].explanationWritten).prediction = run[r].scoreAfter

\* why a call of get_explanation fell back
ExplanationCause(call) ==
    CASE call.answer \in {"timeout", "request_exception", "http_404", "http_500"} ->
            "service_unavailable"
      [] call.job_text = "" \/ call.resume_text = "" -> "insufficient_text"
      [] OTHER -> "none"

\* C22: a fallback explanation carries a machine-readable reason (a key of the
\* result made for it), and a fallback for an unavailable service (down, timeout,
\* status other than 2xx) differs from a fallback for an empty job or resume text.
C22_FallbackCarriesReason ==
    /\ \A k \in 1..Len(calls) :
           (calls[k].op = "get_explanation" /\ ExplanationCause(calls[k]) # "none")
               => "reason" \in explanation_keys(calls[k].result)
    /\ \A k1 \in 1..Len(calls), k2 \in 1..Len(calls) :
           (/\ calls[k1].op = "get_explanation"
            /\ calls[k2].op = "get_explanation"
            /\ ExplanationCause(calls[k1]) = "service_unavailable"
            /\ ExplanationCause(calls[k2]) = "insufficient_text")
               => calls[k1].result.explanation # calls[k2].result.explanation

\* C23: a run on an application whose job or resume has no embedding asks the
\* embedding provider for it before the score stage, whoever called: at the score
\* stage an embedding is missing only when the provider was asked and did not
\* answer, and a score is computed when both embeddings are there.
C23_EmbeddingsResolvedInRun ==
    \A r \in Runs :
        "score" \in Range(run[r].attempted) =>
            /\ \A side \in 1..2 :
                   run[r].embeddings[side] = None => run[r].embedRequests[side] = "failed"
            /\ ~MissingEmbedding(run[r].embeddings[1], run[r].embeddings[2])
                   => run[r].scoreAfter # None

\* w is v stretched by a factor k > 0, or v is w stretched
Parallel(v, w) ==
    \E k \in 1..MaxCoord :
        \/ w = [i \in DOMAIN v |-> k * v[i]]
        \/ v = [i \in DOMAIN w |-> k * w[i]]

\* C25: for a nonzero vector v and a factor k > 0, the score of embeddings v and
\* k * v is 100: a vector matched with itself or with a longer parallel one.
C25_ParallelScores100 ==
    \A r \in Runs :
        (/\ "score" \in Range(run[r].attempted)
         /\ run[r].embeddings[1] # None
         /\ run[r].embeddings[2] # None
         /\ Dot(Val(run[r].embeddings[1]), Val(run[r].embeddings[1])) > 0
         /\ Parallel(Val(run[r].embeddings[1]), Val(run[r].embeddings[2])))
            => run[r].scoreAfter = Some(100)

\* a run scored a vector against the same vector twice as long and stored 100
C25_Witness ==
    \E r \in Runs :
        /\ "score" \in Range(run[r].attempted)
        /\ run[r].embeddings = << Some(<< 1, 1 >>), Some(<< 2, 2 >>) >>
        /\ run[r].scoreWritten = Some(100)
        /\ db[run[r].app].score = Some(100)

\* x is ranked before y: a higher score, or the same score and a lower identifier
RankedBefore(x, y) ==
    \/ x.score > y.score
    \/ x.score = y.score /\ x.candidate_id < y.candidate_id

\* C24: the candidate search returns the candidates by score descending with ties
\* broken by ascending candidate identifier, and keeps the K candidates that rank
\* first, whatever the order in which the store returned the resumes.
C24_RankedByScoreThenId ==
    (matcher.pc = "answered" /\ matcher.response.status = 200) =>
        LET returned == matcher.response.matches
            all == similarities(Val(matcher.job_embedding), matcher.resumes)
        IN /\ \A i, j \in DOMAIN returned : i < j => RankedBefore(returned[i], returned[j])
           /\ \A i \in DOMAIN returned, m \in Range(all) \ Range(returned) :
                  RankedBefore(returned[i], m)

\* C26: there is at most one Application for any (job, resume) pair, also when
\* two create requests for the same pair both pass the 'already applied' check
\* before either inserts.
C26_OneApplicationPerPair ==
    \A i, j \in DOMAIN creation.rows : i # j => creation.rows[i] # creation.rows[j]

\* two requests for one pair both passed the check; one inserted the row and the
\* insert of the other failed (it was never refused by the check)
C26_Witness ==
    \E c, d \in Creators :
        /\ c # d
        /\ creation.request[c].resume = creation.request[d].resume
        /\ creation.request[c].pc = "created"
        /\ creation.request[d].pc = "integrity_error"
        /\ creation.request[c].via # creation.request[d].via
        /\ Len(creation.rows) = 1

\* C27: every run of process_application eventually finishes and returns the
\* application, provided each external call answers or times out; a stage whose
\* backend times out does not hold up the stages after it. (A run is also let
\* off when the step budget of the model is spent.)
C27_EveryRunFinishes ==
    \A r \in Runs :
        (run[r].pc \in Range(Stages))
            ~> (\/ run[r].pc = "done" /\ run[r].outcome = "returned"
                \/ stageSteps = MaxStageSteps)

\* a run whose two backends both timed out went through all stages, stored both
\* fallbacks and returned
C27_Witness ==
    \E r \in Runs :
        /\ run[r].pc = "done"
        /\ run[r].outcome = "returned"
        /\ run[r].attempted = Stages
        /\ run[r].fairnessAnswer = "timeout"
        /\ run[r].explanationAnswer = "timeout"
        /\ run[r].fairnessWritten = Some(FALLBACK_METRICS(MsgTimeout))
        /\ run[r].explanationWritten # None
        /\ Val(run[r].explanationWritten).is_fallback = "true"

\* C28: the reweighting operation is advisory: run any number of times, alone or
\* between the steps of orchestrator runs, it changes no stored field of any
\* application; it only returns adjusted scores.
C28_MitigationIsAdvisory ==
    [][mitigation' # mitigation => (db' = db /\ created' = created)]_vars

\* a reweighting answered between the stages of a run, with an adjusted score that
\* differs from the score of its application, which is still the stored one
C28_Witness ==
    /\ mitigation.count >= 1
    /\ mitigation.response.status = 200
    /\ \E r \in Runs : run[r].pc = "explanation" /\ run[r].scoreWritten # None
    /\ \E i \in DOMAIN mitigation.response.adjusted_scores :
          LET entry == mitigation.response.adjusted_scores[i]
          IN /\ entry.adjusted_score # entry.original_score
             /\ db[entry.application_id].score = Some(entry.original_score.num)

\* C29: a reviewer's update of status or notes, through the HTML view or the REST
\* update, never changes the stored score, fairness_metrics or explanation of the
\* application, also when the request loaded the application before a run wrote
\* those fields and saves after.
C29_ReviewKeepsResults ==
    [][(review' # review \/ reviews' # reviews) =>
           \A a \in Apps : \A f \in ResultFields : db'[a][f] = db[a][f]]_vars

\* C30: when the explanation backend is up and answers every request it serves,
\* and the job text and resume text are non-empty, a run stores that backend's
\* explanation with is_fallback = false: the request the explanation stage sends is
\* one the backend serves.
C30_BackendExplanationStored ==
    \A r \in Runs :
        (/\ run[r].explanationWritten # None
         /\ jobText # "" /\ resText[run[r].app] # ""
         /\ run[r].explanationAnswer = explain_service_answer(stage_explain_path))
            => /\ stage_explain_path \in explain_routes
               /\ Val(run[r].explanationWritten).is_fallback = "false"

====
